---- MODULE Spec2Model ----
(***************************************************************************)
(* Token lifecycle of frontend/src/hello-tokens.ts: createToken,           *)
(* updateToken, redeemToken, queryTokens, findTokenByMessage and           *)
(* parseLookupAnswer, run one invocation at a time against a wallet, a     *)
(* topic broadcaster and an overlay lookup service.                        *)
(*                                                                         *)
(* A string is a sequence of code points, a byte array a sequence of       *)
(* numbers 0..255.  An optional value (undefined in the source) is a key   *)
(* that is missing from the record.                                        *)
(***************************************************************************)
EXTENDS Integers, Sequences, FiniteSets, TLC

\* Longest message the caller passes.
MaxLen == 2
\* Most transactions the overlay accepts in one behaviour.
MaxTx == 2

-----------------------------------------------------------------------------
(* Program constants *)

DEFAULT_TOPIC == "tm_helloworld_bitspv"
PROTOCOL == <<1, "HelloWorld">>
KEY_ID == "1"
LOOKUP_SERVICE == "ls_helloworld_bitspv"
CREATE_PRESET == "local"
UNLOCK_LENGTH == 74
DEFAULT_LIMIT == 100
DEFAULT_TIMEOUT == 10000
DEFAULT_NETWORK == "mainnet"

\* The three errors the module itself throws, by their message.
ConstructionError == "Failed to create transaction"
MissingProofError == "Token must contain tx BEEF to be updated"
SigningError == "Unable to redeem token!"
\* out.lockingScript on an undefined output (tx.outputs[i] out of range).
TypeError == "TypeError"
\* A rejection of an awaited call of a collaborator; it propagates unchanged.
WalletError == "WalletError"
ResolverError == "ResolverError"
BeefError == "BeefError"

-----------------------------------------------------------------------------
(* Strings *)

\* Code points the caller's message is drawn from: space and e-acute.
Alphabet == {32, 233}

Messages == UNION {[1..n -> Alphabet] : n \in 0..MaxLen}

\* The characters String.prototype.trim removes (those below 256).
IsWhiteSpace(c) == c \in {9, 10, 11, 12, 13, 32, 160}

RECURSIVE TrimStart(_)
TrimStart(s) ==
  IF s # <<>> /\ IsWhiteSpace(Head(s)) THEN TrimStart(Tail(s)) ELSE s

RECURSIVE TrimEnd(_)
TrimEnd(s) ==
  IF s # <<>> /\ IsWhiteSpace(s[Len(s)])
  THEN TrimEnd(SubSeq(s, 1, Len(s) - 1))
  ELSE s

Trim(s) == TrimEnd(TrimStart(s))

\* Utils.toArray(message): the UTF-8 bytes of a string (code points < 2048).
RECURSIVE toArray(_)
toArray(s) ==
  IF s = <<>> THEN <<>>
  ELSE LET c == Head(s) IN
       (IF c < 128 THEN <<c>> ELSE <<192 + (c \div 64), 128 + (c % 64)>>)
         \o toArray(Tail(s))

\* Utils.toUTF8(bytes): the string of a UTF-8 byte array.
RECURSIVE toUTF8(_)
toUTF8(b) ==
  IF b = <<>> THEN <<>>
  ELSE IF Head(b) < 128 THEN <<Head(b)>> \o toUTF8(Tail(b))
  ELSE IF Head(b) >= 192 /\ Head(b) < 224 /\ Len(b) >= 2
       THEN <<(Head(b) - 192) * 64 + (b[2] - 128)>> \o toUTF8(Tail(Tail(b)))
  ELSE <<65533>> \o toUTF8(Tail(b))

-----------------------------------------------------------------------------
(* Scripts *)

\* The signature field PushDrop.lock appends after the data fields.
Signature == <<48, 69>>

\* new PushDrop(wallet).lock(fields, PROTOCOL, KEY_ID, 'anyone', true)
PushDropLock(fields) ==
  [kind |-> "pushdrop", protocol |-> PROTOCOL, keyID |-> KEY_ID,
   counterparty |-> "anyone", fields |-> fields \o <<Signature>>]

\* A change output the wallet adds for itself.
ChangeScript == [kind |-> "p2pkh"]

\* PushDrop.decode(script).fields
PushDropDecode(script) == script.fields

\* Utils.toUTF8(PushDrop.decode(out.lockingScript).fields[0])
MessageOf(script) == toUTF8(PushDropDecode(script)[1])

IsToken(out) == out.lockingScript.kind = "pushdrop"

-----------------------------------------------------------------------------
(* State *)

VARIABLES
  utxos,          \* the overlay's unspent token outputs, each {beef, outputIndex}
  nTx,            \* transactions the overlay has accepted
  input,          \* the message the caller works with
  held,           \* the tokens the caller got from its last query
  op,             \* the function being run, or "idle"
  pc,             \* the await the invocation is suspended at, or "done"
  args,           \* the arguments of the invocation
  local,          \* the locals assigned so far
  calls,          \* the calls made on collaborators so far: step, request, reply
  result          \* how the invocation ended: returned a value or threw

vars == <<utxos, nTx, input, held, op, pc, args, local, calls, result>>

ledger == <<utxos, nTx, input>>

Pending == [kind |-> "pending"]
Returned(v) == [kind |-> "returned", value |-> v]
Thrown(e) == [kind |-> "thrown", error |-> e]

Resolved == [status |-> "resolved"]
Rejected(e) == [status |-> "rejected", error |-> e]

Call(step, request, reply) == [step |-> step, request |-> request, reply |-> reply]

\* A record without key k, or with it bound to a value of S.
Opt(k, S) == {<<>>} \cup {k :> v : v \in S}

Has(r, k) == k \in DOMAIN r

\* The reference of an unspent output.
RefOf(u) == <<u.beef.id, u.outputIndex>>

Refs(us) == {RefOf(u) : u \in us}

-----------------------------------------------------------------------------
(* Collaborators *)

\* `${txid}.${outputIndex}`
Outpoint(txid, outputIndex) == <<txid, ".", outputIndex>>

\* The reference an outpoint string names.
ParseOutpoint(o) == <<o[1], o[3]>>

\* The transaction the wallet builds for createAction(request): the requested
\* inputs and outputs in the order given (randomizeOutputs is false), then the
\* wallet's change output.
WalletTx(request) ==
  [id |-> nTx + 1,
   inputs |-> IF Has(request, "inputs")
              THEN [i \in 1..Len(request.inputs) |->
                      ParseOutpoint(request.inputs[i].outpoint)]
              ELSE <<>>,
   outputs |-> (IF Has(request, "outputs")
                THEN [i \in 1..Len(request.outputs) |->
                        [lockingScript |-> request.outputs[i].lockingScript,
                         satoshis |-> request.outputs[i].satoshis]]
                ELSE <<>>)
               \o <<[lockingScript |-> ChangeScript, satoshis |-> 2]>>]

\* What wallet.getNetwork may answer.
WalletNetworks == {"mainnet", "testnet"}

\* What wallet.createAction may answer: a rejection, neither transaction, a
\* final transaction, or a signable one with its reference.
CreateActionReplies(request) ==
  {Rejected(WalletError), Resolved}
    \cup {Resolved @@ ("tx" :> WalletTx(request))}
    \cup {Resolved @@ ("signableTransaction" :>
            [tx |-> WalletTx(request), reference |-> "ref"])}

\* What wallet.signAction may answer for the signable transaction it handed out.
SignActionReplies(request, signable) ==
  {Rejected(WalletError), Resolved}
    \cup (IF request.reference = signable.reference
          THEN {Resolved @@ ("tx" :> (signable.tx @@ ("spends" :> request.spends)))}
          ELSE {})

\* The token outputs a transaction creates, as the overlay stores them.
TokenOutputs(tx) ==
  {[beef |-> tx, outputIndex |-> i - 1] :
     i \in {j \in 1..Len(tx.outputs) : IsToken(tx.outputs[j])}}

InputRefs(tx) == {tx.inputs[i] : i \in 1..Len(tx.inputs)}

\* The overlay admits a transaction whose inputs are all unspent.
Admissible(tx) == InputRefs(tx) \subseteq Refs(utxos)

\* The overlay's outputs once it has admitted tx.
Admit(tx) == {u \in utxos : RefOf(u) \notin InputRefs(tx)} \cup TokenOutputs(tx)

BroadcastSuccess(tx) == [status |-> "success", txid |-> tx.id]
BroadcastFailure == [status |-> "error", code |-> "ERR_REJECTED"]

-----------------------------------------------------------------------------
(* Control *)

Init ==
  /\ utxos = {}
  /\ nTx = 0
  /\ input \in Messages
  /\ held = {}
  /\ op = "idle"
  /\ pc = "idle"
  /\ args = <<>>
  /\ local = <<>>
  /\ calls = <<>>
  /\ result = Pending

\* The invocation ends by throwing e.
Throw(e) == pc' = "done" /\ result' = Thrown(e)

\* The invocation ends by returning v.
Return(v) == pc' = "done" /\ result' = Returned(v)

\* The invocation goes on to its next await.
Goto(p) == pc' = p /\ result' = result

\* The caller calls f with arguments a.
Enter(f, a) ==
  /\ op = "idle"
  /\ op' = f
  /\ args' = a
  /\ calls' = <<>>

\* An awaited call on a collaborator settles with reply r.
Settle(step, request, r) == calls' = Append(calls, Call(step, request, r))

Assign(k, v) == local' = (k :> v) @@ local

\* pushdrop.lock(...) settles: the locking script of the message, or a rejection.
LockReplies(message) ==
  {Rejected(WalletError),
   Resolved @@ ("script" :> PushDropLock(<<toArray(message)>>))}

\* broadcaster.broadcast(tx) settles: the overlay admits the transaction or
\* answers a failure; either way the answer is a value.
Broadcast(topics, preset, tx) ==
  \E accepted \in BOOLEAN :
    /\ accepted => Admissible(tx)
    /\ LET response == IF accepted THEN BroadcastSuccess(tx) ELSE BroadcastFailure IN
         /\ Settle("broadcast",
                   [topics |-> topics, networkPreset |-> preset, tx |-> tx],
                   response)
         /\ Return(response)
    /\ utxos' = IF accepted THEN Admit(tx) ELSE utxos
    /\ nTx' = IF accepted THEN nTx + 1 ELSE nTx

\* The messages the caller passes: the one it works with and a fixed other.
OtherMessage == <<97>>

CallMessages == {input, OtherMessage}

-----------------------------------------------------------------------------
(* createToken *)

\* A createToken that asks for the network preset of the wallet's network.
CreateNetworkPreset_wallet == CHOOSE n \in WalletNetworks : TRUE

\* The network preset createToken hands to its broadcaster.
CreateNetworkPreset == CREATE_PRESET

\* A createToken that asks the wallet again when it got no transaction.
CreateTokenNoTx_retry == Goto("createAction")

\* if (!tx) throw new Error('Failed to create transaction')
CreateTokenNoTx == Throw(ConstructionError)

\* The createAction request of createToken.
CreateTokenRequest(outputScript) ==
  [outputs |-> <<[satoshis |-> 1,
                  lockingScript |-> outputScript,
                  outputDescription |-> "New HelloWorld Token"]>>,
   options |-> [acceptDelayedBroadcast |-> FALSE, randomizeOutputs |-> FALSE],
   description |-> "Create a HelloWorld token"]

\* createToken(message, wallet) is called and awaits the lock.
CreateTokenCall ==
  \E message \in CallMessages :
    /\ nTx < MaxTx
    /\ Enter("createToken", [message |-> message])
    /\ local' = <<>>
    /\ Goto("lock")
    /\ UNCHANGED <<ledger, held>>

\* The lock settles; createAction is requested.
CreateTokenLock ==
  /\ op = "createToken" /\ pc = "lock"
  /\ \E r \in LockReplies(args.message) :
       /\ Settle("lock", <<toArray(args.message)>>, r)
       /\ IF r.status = "rejected"
          THEN Throw(r.error) /\ local' = local
          ELSE Assign("outputScript", r.script) /\ Goto("createAction")
  /\ UNCHANGED <<ledger, held, op, args>>

\* createAction settles; without a transaction the function throws.
CreateTokenAction ==
  /\ op = "createToken" /\ pc = "createAction"
  /\ LET request == CreateTokenRequest(local.outputScript) IN
     \E r \in CreateActionReplies(request) :
       /\ Settle("createAction", request, r)
       /\ IF r.status = "rejected" THEN Throw(r.error) /\ local' = local
          ELSE IF ~Has(r, "tx") THEN CreateTokenNoTx /\ local' = local
          ELSE Assign("tx", r.tx) /\ Goto("broadcast")
  /\ UNCHANGED <<ledger, held, op, args>>

\* The broadcast settles and its response is returned.
CreateTokenBroadcast ==
  /\ op = "createToken" /\ pc = "broadcast"
  /\ Broadcast(<<DEFAULT_TOPIC>>, CreateNetworkPreset, local.tx)
  /\ UNCHANGED <<input, held, op, args, local>>

-----------------------------------------------------------------------------
(* updateToken and redeemToken *)

\* prevToken.token.beef == null
BeefIsNull(t) == ~Has(t.token, "beef")

\* An updateToken without the test.
UpdateRefuses_never(t) == FALSE

\* Whether updateToken refuses the token before doing anything else.
UpdateRefuses(t) == BeefIsNull(t)

\* Whether redeemToken refuses the token before doing anything else: it has no
\* such test.
RedeemRefuses(t) == FALSE

\* Beef.fromBinary(token.beef as number[]): the bundle of a token that has
\* one.  What the library makes of undefined is not this module's to decide:
\* it throws, or yields an empty bundle.
EmptyBeef == [id |-> 0, inputs |-> <<>>, outputs |-> <<>>]

FromBinary(t) ==
  IF Has(t.token, "beef")
  THEN {Resolved @@ ("beef" :> t.token.beef)}
  ELSE {Rejected(BeefError), Resolved @@ ("beef" :> EmptyBeef)}

\* A spend that names no input.
SpendInputs_none(t) == <<>>

\* The inputs of the createAction request of a spend of token t.
SpendInputs(t) ==
  <<[outpoint |-> Outpoint(t.token.txid, t.token.outputIndex),
     unlockingScriptLength |-> UNLOCK_LENGTH,
     inputDescription |-> "Spend previous HelloWorld token"]>>

\* The createAction request of updateToken.
UpdateTokenRequest(t, loadedBEEF, newLocking) ==
  [description |-> "Update HelloWorld token",
   inputBEEF |-> loadedBEEF,
   inputs |-> SpendInputs(t),
   outputs |-> <<[satoshis |-> 1,
                  lockingScript |-> newLocking,
                  outputDescription |-> "Updated HelloWorld Token"]>>,
   options |-> [acceptDelayedBroadcast |-> FALSE, randomizeOutputs |-> FALSE]]

\* The createAction request of redeemToken.
RedeemTokenRequest(t, loadedBEEF) ==
  [description |-> "Redeem HelloWorld token",
   inputBEEF |-> loadedBEEF,
   inputs |-> SpendInputs(t),
   options |-> [acceptDelayedBroadcast |-> FALSE, randomizeOutputs |-> FALSE]]

\* What the function does with createAction's answer r: whether it goes on
\* to sign (and with what), or throws.
AfterCreateAction(r) ==
  IF ~Has(r, "signableTransaction")
  THEN [throw |-> SigningError]
  ELSE [sign |-> r.signableTransaction]

\* The network preset a spend hands to its broadcaster.
SpendNetworkPreset(network) == network

\* createAction settles for function f.
SpendAction(f, request) ==
  /\ op = f /\ pc = "createAction"
  /\ \E r \in CreateActionReplies(request) :
       /\ Settle("createAction", request, r)
       /\ IF r.status = "rejected" THEN Throw(r.error) /\ local' = local
          ELSE LET next == AfterCreateAction(r) IN
               IF Has(next, "throw") THEN Throw(next.throw) /\ local' = local
               ELSE Assign("signableTransaction", next.sign) /\ Goto("sign")
  /\ UNCHANGED <<ledger, held, op, args>>

\* unlocker.sign(Transaction.fromBEEF(signableTransaction.tx), 0) settles.
SpendSign(f) ==
  /\ op = f /\ pc = "sign"
  /\ \E r \in {Rejected(WalletError),
               Resolved @@ ("script" :> [kind |-> "unlock", input |-> 0])} :
       /\ Settle("sign", [tx |-> local.signableTransaction.tx, inputIndex |-> 0], r)
       /\ IF r.status = "rejected" THEN Throw(r.error) /\ local' = local
          ELSE Assign("unlockingScript", r.script) /\ Goto("signAction")
  /\ UNCHANGED <<ledger, held, op, args>>

\* wallet.signAction settles; without a transaction the function throws.
SpendSignAction(f) ==
  /\ op = f /\ pc = "signAction"
  /\ LET request == [reference |-> local.signableTransaction.reference,
                     spends |-> [i \in {0} |->
                                   [unlockingScript |-> local.unlockingScript]]] IN
     \E r \in SignActionReplies(request, local.signableTransaction) :
       /\ Settle("signAction", request, r)
       /\ IF r.status = "rejected" THEN Throw(r.error) /\ local' = local
          ELSE IF ~Has(r, "tx") THEN Throw(SigningError) /\ local' = local
          ELSE Assign("tx", r.tx) /\ Goto("getNetwork")
  /\ UNCHANGED <<ledger, held, op, args>>

\* wallet.getNetwork settles.
SpendNetwork(f) ==
  /\ op = f /\ pc = "getNetwork"
  /\ \E r \in {Rejected(WalletError)}
                \cup {Resolved @@ ("network" :> n) : n \in WalletNetworks} :
       /\ Settle("getNetwork", <<>>, r)
       /\ IF r.status = "rejected" THEN Throw(r.error) /\ local' = local
          ELSE Assign("network", r.network) /\ Goto("broadcast")
  /\ UNCHANGED <<ledger, held, op, args>>

\* The broadcast settles and its response is returned.
SpendBroadcast(f) ==
  /\ op = f /\ pc = "broadcast"
  /\ Broadcast(<<DEFAULT_TOPIC>>, SpendNetworkPreset(local.network), local.tx)
  /\ UNCHANGED <<input, held, op, args, local>>

\* updateToken(prevToken, newMessage, wallet) is called: it throws for a token
\* without proof, and otherwise awaits the lock.
UpdateTokenCall ==
  \E t \in held, newMessage \in CallMessages :
    /\ nTx < MaxTx
    /\ Enter("updateToken", [prevToken |-> t, newMessage |-> newMessage])
    /\ local' = <<>>
    /\ IF UpdateRefuses(t) THEN Throw(MissingProofError) ELSE Goto("lock")
    /\ UNCHANGED <<ledger, held>>

\* The lock settles; the proof is loaded and createAction is requested.
UpdateTokenLock ==
  /\ op = "updateToken" /\ pc = "lock"
  /\ \E r \in LockReplies(args.newMessage) :
       /\ Settle("lock", <<toArray(args.newMessage)>>, r)
       /\ IF r.status = "rejected" THEN Throw(r.error) /\ local' = local
          ELSE \E b \in FromBinary(args.prevToken) :
                 IF b.status = "rejected" THEN Throw(b.error) /\ local' = local
                 ELSE /\ local' = ("newLocking" :> r.script)
                                    @@ ("loadedBEEF" :> b.beef) @@ local
                      /\ Goto("createAction")
  /\ UNCHANGED <<ledger, held, op, args>>

UpdateTokenAction ==
  /\ op = "updateToken" /\ pc = "createAction"
  /\ SpendAction("updateToken",
                 UpdateTokenRequest(args.prevToken, local.loadedBEEF, local.newLocking))

UpdateTokenSign == SpendSign("updateToken")

UpdateTokenSignAction == SpendSignAction("updateToken")

UpdateTokenNetwork == SpendNetwork("updateToken")

UpdateTokenBroadcast == SpendBroadcast("updateToken")

\* redeemToken(token, wallet) is called: the proof is loaded and createAction
\* is requested.
RedeemTokenCall ==
  \E t \in held :
    /\ nTx < MaxTx
    /\ Enter("redeemToken", [token |-> t])
    /\ IF RedeemRefuses(t) THEN Throw(MissingProofError) /\ local' = <<>>
       ELSE \E b \in FromBinary(t) :
              IF b.status = "rejected" THEN Throw(b.error) /\ local' = <<>>
              ELSE local' = ("loadedBEEF" :> b.beef) /\ Goto("createAction")
    /\ UNCHANGED <<ledger, held>>

RedeemTokenAction ==
  /\ op = "redeemToken" /\ pc = "createAction"
  /\ SpendAction("redeemToken", RedeemTokenRequest(args.token, local.loadedBEEF))

RedeemTokenSign == SpendSign("redeemToken")

RedeemTokenSignAction == SpendSignAction("redeemToken")

RedeemTokenNetwork == SpendNetwork("redeemToken")

RedeemTokenBroadcast == SpendBroadcast("redeemToken")

-----------------------------------------------------------------------------
(* queryTokens, findTokenByMessage, parseLookupAnswer *)

\* A value the source tests for truthiness: a string that is present and not
\* empty.
Truthy(r, k) == Has(r, k) /\ r[k] # <<>>

\* message?.trim() is truthy
MessageGiven(params) == Has(params, "message") /\ Trim(params.message) # <<>>

\* A query that carries the message as given.
MessageKey_raw(params) == params.message

\* query.message
MessageKey(params) == Trim(params.message)

\* The query object queryTokens sends for params.
BuildQuery(params) ==
  [limit |-> params.limit,
   skip |-> IF Has(params, "skip") THEN params.skip ELSE 0,
   sortOrder |-> IF Has(params, "sortOrder") THEN params.sortOrder ELSE "desc"]
  @@ (IF MessageGiven(params) THEN "message" :> MessageKey(params) ELSE <<>>)
  @@ (IF Truthy(params, "startDate")
      THEN "startDate" :> params.startDate \o <<"T00:00:00.000Z">> ELSE <<>>)
  @@ (IF Truthy(params, "endDate")
      THEN "endDate" :> params.endDate \o <<"T23:59:59.999Z">> ELSE <<>>)

\* The resolver queryTokens uses when the caller passes none.
ResolverOf(opts) ==
  IF Has(opts, "resolver") THEN opts.resolver
  ELSE [networkPreset |-> IF Has(opts, "network") THEN opts.network
                          ELSE DEFAULT_NETWORK]

\* The request queryTokens makes of the resolver.
LookupRequest(params, opts) ==
  [resolver |-> ResolverOf(opts),
   question |-> [service |-> LOOKUP_SERVICE, query |-> BuildQuery(params)],
   timeout |-> IF Has(opts, "timeout") THEN opts.timeout ELSE DEFAULT_TIMEOUT]

\* The params findTokenByMessage passes on to queryTokens.
FindParams(message, opts) ==
  [limit |-> IF Has(opts, "limit") THEN opts.limit ELSE DEFAULT_LIMIT,
   message |-> message,
   sortOrder |-> "desc"]

\* The opts findTokenByMessage passes on to queryTokens.
FindOpts(opts) == [k \in DOMAIN opts \ {"limit"} |-> opts[k]]

\* A parse that always attaches the proof.
BeefField_always(o, opts) == "beef" :> o.beef

\* includeBeef ? { beef: o.beef } : {}
BeefField(o, opts) ==
  IF Has(opts, "includeBeef") /\ opts.includeBeef THEN "beef" :> o.beef ELSE <<>>

\* Whether tx.outputs[o.outputIndex] is an output.
Decodable(o) == o.outputIndex + 1 \in 1..Len(o.beef.outputs)

\* The token parseLookupAnswer makes of output o.
TokenOf(o, opts) ==
  LET tx == o.beef
      out == tx.outputs[o.outputIndex + 1]
  IN [message |-> MessageOf(out.lockingScript),
      token |-> [txid |-> tx.id,
                 outputIndex |-> o.outputIndex,
                 lockingScript |-> out.lockingScript,
                 satoshis |-> out.satoshis] @@ BeefField(o, opts)]

\* Whether parseLookupAnswer returns [] without looking at any output.
NoOutputs(answer) == answer.type # "output-list" \/ Len(answer.outputs) = 0

\* A parse that decodes the first output only.
parseLookupAnswer_first(answer, opts) ==
  IF NoOutputs(answer) THEN Returned(<<>>)
  ELSE IF ~Decodable(answer.outputs[1]) THEN Thrown(TypeError)
  ELSE Returned(<<TokenOf(answer.outputs[1], opts)>>)

\* parseLookupAnswer(lookupAnswer, includeBeef): how it ends.
parseLookupAnswer(answer, opts) ==
  IF NoOutputs(answer) THEN Returned(<<>>)
  ELSE IF \E i \in 1..Len(answer.outputs) : ~Decodable(answer.outputs[i])
       THEN Thrown(TypeError)
  ELSE Returned([i \in 1..Len(answer.outputs) |-> TokenOf(answer.outputs[i], opts)])

\* The overlay's unspent outputs that match a query, before ordering.
Matching(query) ==
  {u \in utxos :
     Has(query, "message") =>
       MessageOf(u.beef.outputs[u.outputIndex + 1].lockingScript) = query.message}

\* The outputs of S in the order of their transactions, newest first for "desc".
RECURSIVE Ordered(_, _)
Ordered(S, sortOrder) ==
  IF S = {} THEN <<>>
  ELSE LET first == CHOOSE u \in S : \A v \in S :
                      IF sortOrder = "asc" THEN u.beef.id <= v.beef.id
                      ELSE u.beef.id >= v.beef.id
       IN <<first>> \o Ordered(S \ {first}, sortOrder)

\* The page of a list that skip and limit select.
Page(list, skip, limit) ==
  SubSeq(list, skip + 1, IF skip + limit < Len(list) THEN skip + limit ELSE Len(list))

\* What resolver.query may answer: a rejection (a failure or the timeout), an
\* answer of another shape, the page of matching outputs, or an output list
\* that names an output its transaction does not have.
LookupReplies(query) ==
  {Rejected(ResolverError),
   Resolved @@ ("answer" :> [type |-> "freeform", result |-> <<>>]),
   Resolved @@ ("answer" :>
     [type |-> "output-list",
      outputs |-> Page(Ordered(Matching(query), query.sortOrder),
                       query.skip, query.limit)])}
  \cup {Resolved @@ ("answer" :>
          [type |-> "output-list",
           outputs |-> <<[beef |-> u.beef, outputIndex |-> Len(u.beef.outputs)]>>]) :
        u \in utxos}

\* The filters and options the caller queries with.
QueryProfiles ==
  {[limit |-> 2, startDate |-> <<>>],
   [limit |-> 1, skip |-> 1, sortOrder |-> "asc",
    startDate |-> <<"2024-01-01">>, endDate |-> <<"2024-01-01">>]}

QueryOpts == Opt("includeBeef", BOOLEAN)

FindOptions ==
  {<<>>, [includeBeef |-> TRUE, network |-> "testnet"],
   [includeBeef |-> FALSE, limit |-> 1, timeout |-> 500]}

\* queryTokens(params, opts) is called and awaits the resolver.
QueryTokensCall ==
  \E profile \in QueryProfiles, m \in Opt("message", {input}), opts \in QueryOpts :
    /\ Enter("queryTokens", [params |-> profile @@ m, opts |-> opts])
    /\ local' = [params |-> profile @@ m, opts |-> opts]
    /\ Goto("query")
    /\ UNCHANGED <<ledger, held>>

\* findTokenByMessage(message, opts) is called and calls queryTokens.
FindTokenByMessageCall ==
  \E message \in {input}, opts \in FindOptions :
    /\ Enter("findTokenByMessage", [message |-> message, opts |-> opts])
    /\ local' = [params |-> FindParams(message, opts), opts |-> FindOpts(opts)]
    /\ Goto("query")
    /\ UNCHANGED <<ledger, held>>

\* The resolver settles; an answer is parsed and the tokens returned.
QueryReply ==
  /\ op \in {"queryTokens", "findTokenByMessage"} /\ pc = "query"
  /\ LET request == LookupRequest(local.params, local.opts) IN
     \E r \in LookupReplies(request.question.query) :
       /\ Settle("query", request, r)
       /\ pc' = "done"
       /\ result' = IF r.status = "rejected" THEN Thrown(r.error)
                    ELSE parseLookupAnswer(r.answer, local.opts)
  /\ UNCHANGED <<ledger, held, op, args, local>>

-----------------------------------------------------------------------------
(* The caller *)

\* The caller takes the outcome; tokens a query returned are the ones it holds.
Finish ==
  /\ pc = "done"
  /\ held' = IF op \in {"queryTokens", "findTokenByMessage"} /\ result.kind = "returned"
             THEN {result.value[i] : i \in 1..Len(result.value)}
             ELSE held
  /\ op' = "idle"
  /\ pc' = "idle"
  /\ args' = <<>>
  /\ local' = <<>>
  /\ calls' = <<>>
  /\ result' = Pending
  /\ UNCHANGED ledger

Next ==
  \/ CreateTokenCall \/ CreateTokenLock \/ CreateTokenAction \/ CreateTokenBroadcast
  \/ UpdateTokenCall \/ UpdateTokenLock \/ UpdateTokenAction \/ UpdateTokenSign
  \/ UpdateTokenSignAction \/ UpdateTokenNetwork \/ UpdateTokenBroadcast
  \/ RedeemTokenCall \/ RedeemTokenAction \/ RedeemTokenSign
  \/ RedeemTokenSignAction \/ RedeemTokenNetwork \/ RedeemTokenBroadcast
  \/ QueryTokensCall \/ FindTokenByMessageCall \/ QueryReply
  \/ Finish

Spec == Init /\ [][Next]_vars

-----------------------------------------------------------------------------
(* Properties *)

CallsOf(step) == SelectSeq(calls, LAMBDA c : c.step = step)

Spending == op \in {"updateToken", "redeemToken"}

Querying == op \in {"queryTokens", "findTokenByMessage"}

\* The token a spend was called with, and its reference.
SpentToken == IF op = "updateToken" THEN args.prevToken ELSE args.token

SpentRef == <<SpentToken.token.txid, SpentToken.token.outputIndex>>

\* The message filter the caller passed, when it passed one.
FilterGiven == op = "findTokenByMessage" \/ Has(args.params, "message")

RawFilter == IF op = "findTokenByMessage" THEN args.message ELSE args.params.message

\* The query object the resolver was sent, and what it answered.
SentQuery == calls[1].request.question.query

Answered == Querying /\ Len(calls) = 1 /\ calls[1].reply.status = "resolved"

Answer == calls[1].reply.answer

AllWhiteSpace(m) == \A i \in 1..Len(m) : IsWhiteSpace(m[i])

\* C1: updateToken called with a token that has no proof bundle ends at once
\* with MissingProofError, whatever the new message, having called no
\* collaborator: no lock, createAction, signAction, getNetwork or broadcast.
C1_UpdateWithoutProofFails ==
  (op = "updateToken" /\ ~Has(args.prevToken.token, "beef"))
    => /\ pc = "done"
       /\ result = Thrown(MissingProofError)
       /\ calls = <<>>

C1_Witness ==
  /\ op = "updateToken"
  /\ ~Has(args.prevToken.token, "beef")
  /\ args.newMessage = input
  /\ input # <<>>
  /\ result = Thrown(MissingProofError)

\* C2: redeemToken called with a token that has no proof bundle ends at once
\* with MissingProofError, having called no collaborator.
C2_RedeemWithoutProofFails ==
  (op = "redeemToken" /\ ~Has(args.token.token, "beef"))
    => /\ pc = "done"
       /\ result = Thrown(MissingProofError)
       /\ calls = <<>>

\* C3: in updateToken and redeemToken called with a token that carries its
\* proof, when createAction answers a final transaction and no signable one,
\* the external-sign phase is skipped and the function goes on to broadcast
\* that transaction; SigningError is thrown only when no final transaction
\* has been obtained.
C3_FinalTransactionIsBroadcast ==
  (Spending /\ Has(SpentToken.token, "beef")) =>
    \A i \in 1..Len(calls) :
      (/\ calls[i].step = "createAction"
       /\ Has(calls[i].reply, "tx")
       /\ ~Has(calls[i].reply, "signableTransaction"))
        => /\ result # Thrown(SigningError)
           /\ CallsOf("sign") = <<>>
           /\ CallsOf("signAction") = <<>>
           /\ pc \in {"getNetwork", "broadcast", "done"}

Failed(c) ==
  \/ c.reply.status = "rejected"
  \/ /\ c.step = "createAction"
     /\ ~Has(c.reply, "tx")
     /\ op = "createToken" \/ ~Has(c.reply, "signableTransaction")
  \/ c.step = "signAction" /\ ~Has(c.reply, "tx")
  \/ c.step = "broadcast" /\ c.reply.status = "error"

\* The failure of call c is what the caller gets.
Surfaced(c) ==
  IF c.step = "broadcast" THEN result = Returned(c.reply)
  ELSE /\ result.kind = "thrown"
       /\ c.reply.status = "rejected" => result.error = c.reply.error

\* C5: within one invocation every step on a collaborator is taken at most
\* once, and a step that fails is the last one: the invocation is over and
\* its outcome is that failure.
C5_NoRetry ==
  /\ \A i, j \in 1..Len(calls) : i < j => calls[i].step # calls[j].step
  /\ \A i \in 1..Len(calls) :
       Failed(calls[i]) => /\ i = Len(calls)
                           /\ pc = "done"
                           /\ Surfaced(calls[i])

C5_Witness ==
  /\ op = "updateToken"
  /\ Len(calls) = 4
  /\ calls[4].step = "signAction"
  /\ Failed(calls[4])
  /\ result = Thrown(SigningError)

\* A spend whose broadcast the overlay accepts.
SpendAccepted ==
  /\ Spending
  /\ pc = "broadcast"
  /\ pc' = "done"
  /\ result'.kind = "returned"
  /\ result'.value.status = "success"

\* A query that returns tokens.
QueryReturns ==
  /\ Querying
  /\ pc = "query"
  /\ result'.kind = "returned"

C7_IssueThenQueryRoundTrip ==
  (/\ op = "findTokenByMessage"
   /\ Answered
   /\ args.message # <<>>
   /\ \E u \in utxos :
        /\ utxos = {u}
        /\ u.beef.outputs[u.outputIndex + 1].lockingScript
             = PushDropLock(<<toArray(args.message)>>)
   /\ Answer.type = "output-list"
   /\ Answer.outputs = Page(Ordered(Matching(SentQuery), SentQuery.sortOrder),
                            SentQuery.skip, SentQuery.limit))
    => /\ result.kind = "returned"
       /\ Len(result.value) = 1
       /\ result.value[1].message = args.message

IncludeBeefAsked == Has(args.opts, "includeBeef") /\ args.opts.includeBeef

\* C10: every token a query returns carries its output's proof bundle when
\* the caller passed includeBeef true, and has no proof field otherwise; and
\* updateToken given a token without the field throws MissingProofError
\* without a call on the wallet or the broadcaster.
C10_ProofOnlyOnRequest ==
  /\ (Querying /\ pc = "done" /\ result.kind = "returned") =>
       \A i \in 1..Len(result.value) :
         IF IncludeBeefAsked
         THEN /\ Has(result.value[i].token, "beef")
              /\ result.value[i].token.beef = Answer.outputs[i].beef
         ELSE DOMAIN result.value[i].token
                = {"txid", "outputIndex", "lockingScript", "satoshis"}
  /\ (op = "updateToken" /\ \A t \in held : ~Has(t.token, "beef")) =>
       /\ result = Thrown(MissingProofError)
       /\ calls = <<>>

C10_Witness ==
  /\ Querying
  /\ pc = "done"
  /\ ~Has(args.opts, "includeBeef")
  /\ result.kind = "returned"
  /\ Len(result.value) >= 1
  /\ \A i \in 1..Len(result.value) : ~Has(result.value[i].token, "beef")

====
